---- MODULE Spec2Model ----
(***************************************************************************)
(* Model of the stochastic risk engine of the fulfillment dashboard        *)
(* (src/app.py, src/data_processor.py).                                    *)
(*                                                                         *)
(* The dashboard is a Streamlit script: every interaction re-executes the  *)
(* script top to bottom.  One run is modelled as a sequence of steps       *)
(* (sidebar, acceptance sampling, OC-curve loop, Markov generator); the    *)
(* value of each widget is drawn from a small set where the script reads   *)
(* it.                                                                     *)
(*                                                                         *)
(* Numbers.  Python ints are unbounded and the probabilities are ratios of *)
(* binomial coefficients far beyond 32 bits, so naturals are kept as       *)
(* little-endian sequences of base-10^6 limbs.  The products that are      *)
(* truncated by int() are IEEE-754 doubles and are modelled as such        *)
(* (53-bit significand, round to nearest even).  Probabilities and         *)
(* transition rates are kept as exact ratios.                              *)
(***************************************************************************)
EXTENDS Integers, Sequences, FiniteSets, TLC

(***************************************************************************)
(* Arbitrary-precision naturals                                            *)
(***************************************************************************)
Base == 1000 * 1000

BigZero == <<>>
BigOne == <<1>>

\* a * m for a limb-sized factor m
RECURSIVE MulCarry(_, _, _, _)
MulCarry(a, m, i, carry) ==
    IF i > Len(a) THEN (IF carry = 0 THEN <<>> ELSE <<carry>>)
    ELSE LET t == a[i] * m + carry
         IN  <<t % Base>> \o MulCarry(a, m, i + 1, t \div Base)

BigMulSmall(a, m) == IF m = 0 THEN BigZero ELSE MulCarry(a, m, 1, 0)

\* floor(a / d) for a limb-sized divisor d, most significant limb first
RECURSIVE DivFrom(_, _, _, _)
DivFrom(a, d, i, rem) ==
    IF i = 0 THEN <<>>
    ELSE LET cur == rem * Base + a[i]
             q == cur \div d
             low == DivFrom(a, d, i - 1, cur % d)
         IN  IF i = Len(a) /\ q = 0 THEN low ELSE Append(low, q)

BigDivSmall(a, d) == DivFrom(a, d, Len(a), 0)

\* a mod d for a limb-sized divisor d
RECURSIVE RemFrom(_, _, _, _)
RemFrom(a, d, i, rem) ==
    IF i = 0 THEN rem ELSE RemFrom(a, d, i - 1, (rem * Base + a[i]) % d)

BigModSmall(a, d) == RemFrom(a, d, Len(a), 0)

RECURSIVE AddFrom(_, _, _, _)
AddFrom(a, b, i, carry) ==
    IF i > Len(a) /\ i > Len(b) THEN (IF carry = 0 THEN <<>> ELSE <<carry>>)
    ELSE LET t == (IF i <= Len(a) THEN a[i] ELSE 0)
                  + (IF i <= Len(b) THEN b[i] ELSE 0) + carry
         IN  <<t % Base>> \o AddFrom(a, b, i + 1, t \div Base)

BigAdd(a, b) == AddFrom(a, b, 1, 0)

RECURSIVE LessFrom(_, _, _)
LessFrom(a, b, i) ==
    IF i = 0 THEN FALSE
    ELSE IF a[i] # b[i] THEN a[i] < b[i]
    ELSE LessFrom(a, b, i - 1)

BigLess(a, b) == IF Len(a) # Len(b) THEN Len(a) < Len(b) ELSE LessFrom(a, b, Len(a))

BigLeq(a, b) == ~BigLess(b, a)

\* the value of a natural that fits a machine integer
RECURSIVE ToIntFrom(_, _)
ToIntFrom(a, i) == IF i > Len(a) THEN 0 ELSE a[i] + Base * ToIntFrom(a, i + 1)

BigToInt(a) == ToIntFrom(a, 1)

BigOfInt(x) ==
    IF x = 0 THEN BigZero
    ELSE IF x < Base THEN <<x>>
    ELSE <<x % Base, x \div Base>>

(***************************************************************************)
(* Binomial coefficients: acc * C(n, k) by the multiplicative formula,     *)
(* acc * C(n-k+i, i) after step i (always an integer).  The steps are      *)
(* split in halves to keep the evaluation shallow.                         *)
(***************************************************************************)
RECURSIVE TimesChooseSteps(_, _, _, _, _)
TimesChooseSteps(acc, n, k, lo, hi) ==
    IF Len(acc) >= 0 /\ lo > hi THEN acc
    ELSE IF lo = hi THEN BigDivSmall(BigMulSmall(acc, n - k + lo), lo)
    ELSE LET mid == (lo + hi) \div 2
         IN  TimesChooseSteps(TimesChooseSteps(acc, n, k, lo, mid), n, k, mid + 1, hi)

BigTimesChoose(acc, n, k) ==
    IF k < 0 \/ k > n THEN BigZero
    ELSE LET kk == IF k <= n - k THEN k ELSE n - k
         IN  TimesChooseSteps(acc, n, kk, 1, kk)

Choose(n, k) == BigTimesChoose(BigOne, n, k)

(***************************************************************************)
(* IEEE-754 doubles.  A double is [m, e] with value m / 2^e; a non-zero    *)
(* result has 2^52 <= m <= 2^53.  RoundRatio(A, D, e) is the double        *)
(* nearest to A / (D * 2^e), ties to even: the result of one correctly     *)
(* rounded operation.                                                      *)
(***************************************************************************)
Two52 == <<370496, 599627, 4503>>
Two53 == <<740992, 199254, 9007>>

RECURSIVE RoundRatio(_, _, _)
RoundRatio(A, D, e) ==
    IF A = BigZero THEN [m |-> BigZero, e |-> 0]
    ELSE IF BigLess(BigMulSmall(A, 1024), BigMulSmall(Two52, D))
         THEN RoundRatio(BigMulSmall(A, 1024), D, e + 10)
    ELSE IF BigLess(A, BigMulSmall(Two52, D))
         THEN RoundRatio(BigMulSmall(A, 2), D, e + 1)
    ELSE IF BigLeq(BigMulSmall(Two53, D), A)
         THEN RoundRatio(A, 2 * D, e - 1)
    ELSE LET q == BigDivSmall(A, D)
             r == BigModSmall(A, D)
             up == 2 * r > D \/ (2 * r = D /\ q[1] % 2 = 1)
         IN  [m |-> IF up THEN BigAdd(q, BigOne) ELSE q, e |-> e]

\* x / y for two integers, as Python's true division computes it
DoubleOfRatio(x, y) == RoundRatio(BigOfInt(x), y, 0)

\* f * k and f / k for a double f and an integer k
DoubleTimesInt(f, k) == RoundRatio(BigMulSmall(f.m, k), 1, f.e)
DoubleDivInt(f, k) == RoundRatio(f.m, k, f.e)

\* int(f): truncation of a non-negative double
RECURSIVE ShiftRight(_, _)
ShiftRight(a, e) ==
    IF e = 0 THEN a
    ELSE IF e >= 10 THEN ShiftRight(BigDivSmall(a, 1024), e - 10)
    ELSE BigDivSmall(a, 2 ^ e)

IntOfDouble(f) == BigToInt(ShiftRight(f.m, f.e))

\* a * 2^e
RECURSIVE ShiftLeft(_, _)
ShiftLeft(a, e) ==
    IF e = 0 THEN a
    ELSE IF e >= 10 THEN ShiftLeft(BigMulSmall(a, 1024), e - 10)
    ELSE BigMulSmall(a, 2 ^ e)

\* round(f): Python's round of a non-negative double, ties to even
RoundOfDouble(f) ==
    LET lo == IntOfDouble(f)
        twice == IntOfDouble([m |-> BigMulSmall(f.m, 2), e |-> f.e])
        half == BigMulSmall(f.m, 2) = ShiftLeft(BigOfInt(2 * lo + 1), f.e)
    IN  IF twice = 2 * lo THEN lo
        ELSE IF half THEN (IF lo % 2 = 0 THEN lo ELSE lo + 1)
        ELSE lo + 1

(***************************************************************************)
(* scipy.stats.hypergeom.cdf(k, M, n, N): a population of M items holds n  *)
(* marked items, N are drawn without replacement; the probability that at  *)
(* most k of the drawn items are marked,                                   *)
(*     sum_{j=0..k} C(n, j) * C(M-n, N-j) / C(M, N).                       *)
(* A probability is the exact ratio [num, den].                            *)
(***************************************************************************)
\* the unmarked items drawn from the whole population instead of the M - n
\* unmarked ones
HypergeomTermWholePopulation(j, M, n, N) == BigTimesChoose(Choose(M, N - j), n, j)

HypergeomTerm(j, M, n, N) == BigTimesChoose(Choose(M - n, N - j), n, j)

\* the point mass P(X = k) instead of the cumulative sum
HypergeomPointMass(k, M, n, N) == BigTimesChoose(Choose(M - n, N - k), n, k)

\* the sum stopping one term short: P(X < k)
RECURSIVE HypergeomSumExclusive(_, _, _, _)
HypergeomSumExclusive(k, M, n, N) ==
    IF k <= 0 THEN BigZero
    ELSE BigAdd(HypergeomSumExclusive(k - 1, M, n, N),
                BigTimesChoose(Choose(M - n, N - (k - 1)), n, k - 1))

RECURSIVE HypergeomSum(_, _, _, _)
HypergeomSum(k, M, n, N) ==
    IF k < 0 THEN BigZero
    ELSE BigAdd(HypergeomSum(k - 1, M, n, N), HypergeomTerm(k, M, n, N))

HypergeomCdf(k, M, n, N) ==
    [num |-> HypergeomSum(k, M, n, N), den |-> Choose(M, N)]

\* comparisons of probabilities over one denominator
ProbLeq(p, q) == p.den = q.den /\ BigLeq(p.num, q.num)
ProbIsOne(p) == p.den # BigZero /\ p.num = p.den
ProbInUnitInterval(p) == p.den # BigZero /\ BigLeq(BigZero, p.num) /\ BigLeq(p.num, p.den)

\* p rounds to v / 10000 at four decimals: (2v-1)/20000 <= p < (2v+1)/20000
RoundsToFourDecimals(p, v) ==
    LET scaled == BigMulSmall(BigMulSmall(p.num, 200), 100)
    IN  /\ BigLeq(BigMulSmall(p.den, 2 * v - 1), scaled)
        /\ BigLess(scaled, BigMulSmall(p.den, 2 * v + 1))

(***************************************************************************)
(* Exact rationals [n, d] in lowest terms with d > 0, for the rates of the *)
(* Markov generator.                                                       *)
(***************************************************************************)
Abs(x) == IF x < 0 THEN -x ELSE x

RECURSIVE Gcd(_, _)
Gcd(a, b) == IF b = 0 THEN a ELSE Gcd(b, a % b)

Rat(n, d) ==
    LET g == Gcd(Abs(n), Abs(d))
        s == IF d < 0 THEN -1 ELSE 1
    IN  [n |-> (s * n) \div g, d |-> (s * d) \div g]

RatOfInt(x) == [n |-> x, d |-> 1]
RatZero == RatOfInt(0)
RatNeg(a) == [n |-> -a.n, d |-> a.d]
RatAdd(a, b) == Rat(a.n * b.d + b.n * a.d, a.d * b.d)
RatSub(a, b) == RatAdd(a, RatNeg(b))
RatMul(a, b) == Rat(a.n * b.n, a.d * b.d)
RatDiv(a, b) == Rat(a.n * b.d, a.d * b.n)
RatLess(a, b) == a.n * b.d < b.n * a.d
RatLeq(a, b) == a.n * b.d <= b.n * a.d

(***************************************************************************)
(* Decimal floating point [m, e] = m * 10^e with an 8-digit significand,   *)
(* for the transient probabilities P0 @ expm(Q*t).  The code computes them *)
(* in doubles; exp has no exact value, so the model carries 8 significant  *)
(* digits through the same kind of computation (scaling, a truncated       *)
(* series, repeated squaring).  Properties stated over these values leave  *)
(* a margin of ModelTolerance.                                             *)
(***************************************************************************)
\* the element of a singleton set: {e(v) : v \in {x}} evaluates x once where
\* e uses it several times
Value(S) == CHOOSE v \in S : TRUE

Sign(x) == IF x < 0 THEN -1 ELSE 1

DecDigits == 8
DecLow == 10 ^ (DecDigits - 1)
DecHigh == 10 ^ DecDigits
DecZero == [m |-> 0, e |-> 0]

RECURSIVE DecUp(_, _)
DecUp(a, e) == IF a >= DecLow THEN [m |-> a, e |-> e] ELSE DecUp(a * 10, e - 1)

\* a > 0 rounded to DecDigits digits
DecPos(a, e) ==
    IF a >= 10 * DecHigh THEN [m |-> (a + 50) \div 100, e |-> e + 2]
    ELSE IF a >= DecHigh THEN
        LET r == (a + 5) \div 10
        IN  IF r >= DecHigh THEN [m |-> r \div 10, e |-> e + 2] ELSE [m |-> r, e |-> e + 1]
    ELSE DecUp(a, e)

DecNorm(m, e) ==
    IF m = 0 THEN DecZero
    ELSE LET p == DecPos(Abs(m), e) IN [m |-> Sign(m) * p.m, e |-> p.e]

DecOfInt(x) == DecNorm(x, 0)
DecOne == DecOfInt(1)
DecNeg(x) == [m |-> -x.m, e |-> x.e]
DecAbs(x) == [m |-> Abs(x.m), e |-> x.e]

\* the product of two significands, formed from their 4-digit halves
DecMul(x, y) ==
    IF x.m = 0 \/ y.m = 0 THEN DecZero
    ELSE LET a == Abs(x.m)
             b == Abs(y.m)
             a1 == a \div 10000
             a0 == a % 10000
             b1 == b \div 10000
             b0 == b % 10000
             p == a1 * b1 * 10 + (a1 * b0 + a0 * b1 + (a0 * b0) \div 10000) \div 1000
         IN  DecNorm(Sign(x.m) * Sign(y.m) * p, x.e + y.e + 7)

DecAdd(x, y) ==
    IF x.m = 0 THEN y
    ELSE IF y.m = 0 THEN x
    ELSE IF x.e >= y.e THEN
        (IF x.e - y.e > DecDigits THEN x
         ELSE DecNorm(x.m + Sign(y.m) * (Abs(y.m) \div 10 ^ (x.e - y.e)), x.e))
    ELSE
        (IF y.e - x.e > DecDigits THEN y
         ELSE DecNorm(y.m + Sign(x.m) * (Abs(x.m) \div 10 ^ (y.e - x.e)), y.e))

DecSub(x, y) == DecAdd(x, DecNeg(y))

\* x / k for an integer 0 < k < 10^8
DecDivInt(x, k) ==
    IF x.m = 0 THEN DecZero
    ELSE LET a == Abs(x.m) * 10
             q1 == a \div k
             q2 == ((a % k) * 10) \div k
         IN  IF q1 >= DecHigh THEN DecNorm(Sign(x.m) * q1, x.e - 1)
             ELSE DecNorm(Sign(x.m) * (q1 * 10 + q2), x.e - 2)

DecHalf(x) == DecNorm(x.m * 5, x.e - 1)
DecOfRat(r) == DecDivInt(DecOfInt(r.n), r.d)
DecLess(x, y) == DecSub(x, y).m < 0
DecLeq(x, y) == DecSub(x, y).m <= 0
DecMax(x, y) == IF DecLess(x, y) THEN y ELSE x

ModelTolerance == DecNorm(1, -4)

\* x / y, digit by digit
RECURSIVE DivDigits(_, _, _, _)
DivDigits(rem, b, q, n) ==
    IF n = 0 THEN q
    ELSE DivDigits((rem * 10) % b, b, q * 10 + (rem * 10) \div b, n - 1)

DecDiv(x, y) ==
    IF x.m = 0 THEN DecZero
    ELSE LET a == Abs(x.m)
             b == Abs(y.m)
             q == DivDigits(a % b, b, a \div b, DecDigits)
         IN  DecNorm(Sign(x.m) * Sign(y.m) * q, x.e - y.e - DecDigits)

RECURSIVE IntSqrt(_, _, _)
IntSqrt(a, lo, hi) ==
    IF hi - lo <= 1 THEN lo
    ELSE LET mid == (lo + hi) \div 2
         IN  IF mid * mid <= a THEN IntSqrt(a, mid, hi) ELSE IntSqrt(a, lo, mid)

\* the square root of x >= 0: an integer root of the significand, refined by
\* two Newton steps
DecSqrt(x) ==
    IF x.m <= 0 THEN DecZero
    ELSE LET odd == x.e % 2 # 0
             a == IF odd THEN x.m * 10 ELSE x.m
             e == IF odd THEN x.e - 1 ELSE x.e
             y0 == DecNorm(IntSqrt(a, 0, 40000), e \div 2)
             y1 == DecHalf(DecAdd(y0, DecDiv(x, y0)))
         IN  DecHalf(DecAdd(y1, DecDiv(x, y1)))

(***************************************************************************)
(* 4 x 4 matrices of decimals, as tuples of rows, and the matrix           *)
(* exponential: A is halved until its row-sum norm is at most 1/4, the     *)
(* series I + A + A^2/2! + ... is summed to TaylorOrder terms, and the     *)
(* result is squared once per halving.                                     *)
(***************************************************************************)
Dot(A, B, i, j) ==
    DecAdd(DecAdd(DecMul(A[i][1], B[1][j]), DecMul(A[i][2], B[2][j])),
           DecAdd(DecMul(A[i][3], B[3][j]), DecMul(A[i][4], B[4][j])))
MatRow(A, B, i) == <<Dot(A, B, i, 1), Dot(A, B, i, 2), Dot(A, B, i, 3), Dot(A, B, i, 4)>>
MatMul(A, B) == <<MatRow(A, B, 1), MatRow(A, B, 2), MatRow(A, B, 3), MatRow(A, B, 4)>>
HalfRow(r) == <<DecHalf(r[1]), DecHalf(r[2]), DecHalf(r[3]), DecHalf(r[4])>>
MatHalf(A) == <<HalfRow(A[1]), HalfRow(A[2]), HalfRow(A[3]), HalfRow(A[4])>>
DivRow(r, k) == <<DecDivInt(r[1], k), DecDivInt(r[2], k), DecDivInt(r[3], k), DecDivInt(r[4], k)>>
MatDivInt(A, k) == <<DivRow(A[1], k), DivRow(A[2], k), DivRow(A[3], k), DivRow(A[4], k)>>
AddRow(r, s) == <<DecAdd(r[1], s[1]), DecAdd(r[2], s[2]), DecAdd(r[3], s[3]), DecAdd(r[4], s[4])>>
MatAdd(A, B) == <<AddRow(A[1], B[1]), AddRow(A[2], B[2]), AddRow(A[3], B[3]), AddRow(A[4], B[4])>>
Identity ==
    << <<DecOne, DecZero, DecZero, DecZero>>, <<DecZero, DecOne, DecZero, DecZero>>,
       <<DecZero, DecZero, DecOne, DecZero>>, <<DecZero, DecZero, DecZero, DecOne>> >>
RowNorm(r) == DecAdd(DecAdd(DecAbs(r[1]), DecAbs(r[2])), DecAdd(DecAbs(r[3]), DecAbs(r[4])))
MatNorm(A) == DecMax(DecMax(RowNorm(A[1]), RowNorm(A[2])), DecMax(RowNorm(A[3]), RowNorm(A[4])))
VecMat(v, A) ==
    LET Col(j) == DecAdd(DecAdd(DecMul(v[1], A[1][j]), DecMul(v[2], A[2][j])),
                         DecAdd(DecMul(v[3], A[3][j]), DecMul(v[4], A[4][j])))
    IN  <<Col(1), Col(2), Col(3), Col(4)>>

ScaledNorm == DecNorm(25, -2)
TaylorOrder == 8

RECURSIVE Halvings(_, _)
Halvings(A, s) ==
    Value({IF DecLeq(MatNorm(a), ScaledNorm) THEN [A |-> a, s |-> s]
           ELSE Halvings(MatHalf(a), s + 1) : a \in {A}})

RECURSIVE Taylor(_, _, _, _)
Taylor(A, term, sum, k) ==
    IF k > TaylorOrder THEN sum
    ELSE Value({Value({Taylor(A, next, total, k + 1) : total \in {MatAdd(sum, next)}}) :
                next \in {MatDivInt(MatMul(term, A), k)}})

RECURSIVE Squarings(_, _)
Squarings(E, s) ==
    IF s = 0 THEN E ELSE Value({Squarings(square, s - 1) : square \in {MatMul(E, E)}})

expm(A) ==
    Value({Value({Squarings(series, h.s) : series \in {Taylor(h.A, Identity, Identity, 1)}}) :
           h \in {Halvings(A, 0)}})

(***************************************************************************)
(* Widget ranges.  Each set samples the range its widget allows.           *)
(***************************************************************************)
\* st.sidebar.slider("Naive Inspection Rate (%)", 0, 100, 10): whole percents
InspectionRates == {0, 10, 100}
\* st.sidebar.number_input("Number of Servers", min_value=1, value=50)
ServerCounts == {5, 50}
\* st.number_input("Batch Size (N)", value=1000, min_value=100, step=100)
MinBatchSize == 100
BatchSizes == {MinBatchSize, 2 * MinBatchSize}
\* st.slider("True Defect Rate in Batch (%)", 0.0, 20.0, 5.0, 0.1): the
\* positions that are whole percents
DefectPercents == {0, 5}
\* st.number_input("Acceptance Criterion (c)", value=0, min_value=0, max_value=20)
MaxAcceptanceNumber == 20
MaxC == 1
AcceptanceNumbers == {c \in 0..MaxC : c <= MaxAcceptanceNumber}
\* st.slider("Arrival Rate", min_value=10, max_value=200, value=95, step=5)
ArrivalRates == {10, 90, 95, 200}

\* np.linspace(0, 0.20, 100): step = (stop - start) / (num - 1), the points
\* i * step + start, and the last point set to stop itself
GridPoints == 100
GridStop == DoubleOfRatio(2, 10)
GridStep == DoubleDivInt(GridStop, GridPoints - 1)
defect_rates ==
    [i \in 0..GridPoints - 1 |->
        IF i = GridPoints - 1 THEN GridStop ELSE DoubleTimesInt(GridStep, i)]

(***************************************************************************)
(* State: the script's names, and pc, the place of the run in the script.  *)
(* A name the run has not assigned yet holds Unassigned (NoDouble, NoProb, *)
(* NoRat, an empty Q for the other types).                                 *)
(***************************************************************************)
VARIABLES
    pc,
    naive_inspection_rate, num_servers,
    batch_size, naive_sample_n, real_defect_rate, acceptance_number, M, prob_accept,
    M_sim, probs_accept,
    lambda_rate, service_capacity, utilization, stress_factor,
    up_rate, down_rate, failure_rate, Q,
    Pt, prob_crash, P_t, crash_probs, time_to_5pct, time_to_risk_cell,
    eigenvalues, eigen_data, relaxation_time,
    dataset_present, orders_df, items_df, load_result, processed_log, get_data_cache, df,
    service_times, q99, service_times_clean, var_95, var_99,
    x_axis, dx, pdf_total, x_total,
    seasonal_period, adf_confidence, ts_data, adf_result, critical_threshold,
    stationarity, acf_values, colors, decomposition, page

sidebarVars == <<naive_inspection_rate, num_servers>>
samplingVars == <<batch_size, naive_sample_n, real_defect_rate, acceptance_number,
                  M, prob_accept>>
ocVars == <<M_sim, probs_accept>>
markovVars == <<lambda_rate, service_capacity, utilization, stress_factor,
                up_rate, down_rate, failure_rate, Q>>
transientVars == <<Pt, prob_crash, P_t, crash_probs, time_to_5pct, time_to_risk_cell>>
\* the names bound after the generator matrix is built
eigenVars == <<eigenvalues, eigen_data, relaxation_time>>
\* the raw dataset and processed_log.csv are files, and the st.cache_data
\* entry of get_data lives in the server process: they outlast a run
fileVars == <<dataset_present, orders_df, items_df, processed_log, get_data_cache>>
loaderVars == <<load_result, df>>
riskVars == <<service_times, q99, service_times_clean, var_95, var_99>>
convVars == <<x_axis, dx, pdf_total, x_total>>
\* the names bound by tab 4
seriesVars == <<seasonal_period, adf_confidence, ts_data, adf_result, critical_threshold,
                stationarity, acf_values, colors, decomposition>>
restVars == <<transientVars, eigenVars, fileVars, loaderVars, riskVars, convVars,
              seriesVars, page>>
vars == <<pc, sidebarVars, samplingVars, ocVars, markovVars, restVars>>

Unassigned == -1
NoDouble == [m |-> BigZero, e |-> Unassigned]
NoProb == [num |-> BigZero, den |-> BigZero]
NoRat == [n |-> 0, d |-> 0]
NoMatrix == <<>>
NoVector == <<>>
NoDecimal == [m |-> 0, e |-> Unassigned]
NoCell == ""
NoFile == [exists |-> FALSE, rows |-> <<>>]
NoTable == [kind |-> "unbound", rows |-> <<>>, order_purchase_timestamp |-> "unbound"]
NoResult == [kind |-> "unbound", message |-> ""]
NoGrid == [start |-> 0, stop |-> 0, num |-> 0]
NoArray == [len |-> Unassigned]
NoTest == [adf_statistic |-> 0, p_value |-> Unassigned, nobs |-> Unassigned]

\* every name of the script unbound: the start of a run
Fresh ==
    [naive_inspection_rate |-> NoDouble, num_servers |-> Unassigned,
     batch_size |-> Unassigned, naive_sample_n |-> Unassigned,
     real_defect_rate |-> NoDouble, acceptance_number |-> Unassigned,
     M |-> Unassigned, prob_accept |-> NoProb,
     M_sim |-> Unassigned, probs_accept |-> <<>>,
     lambda_rate |-> Unassigned, service_capacity |-> Unassigned,
     utilization |-> NoRat, stress_factor |-> NoRat,
     up_rate |-> NoRat, down_rate |-> NoRat, failure_rate |-> NoRat,
     Q |-> NoMatrix,
     Pt |-> NoVector, prob_crash |-> NoDecimal, P_t |-> NoVector,
     crash_probs |-> <<>>, time_to_5pct |-> NoRat, time_to_risk_cell |-> NoCell,
     eigenvalues |-> <<>>, eigen_data |-> <<>>, relaxation_time |-> NoDecimal,
     dataset_present |-> {}, orders_df |-> <<>>, items_df |-> {},
     load_result |-> NoResult, processed_log |-> NoFile, get_data_cache |-> NoTable,
     df |-> NoTable,
     service_times |-> <<>>, q99 |-> NoRat, service_times_clean |-> <<>>,
     var_95 |-> NoRat, var_99 |-> NoRat,
     x_axis |-> NoGrid, dx |-> NoDouble, pdf_total |-> NoArray, x_total |-> NoGrid,
     seasonal_period |-> Unassigned, adf_confidence |-> Unassigned, ts_data |-> <<>>,
     adf_result |-> NoTest, critical_threshold |-> 0, stationarity |-> NoCell,
     acf_values |-> <<>>, colors |-> <<>>, decomposition |-> NoCell, page |-> {}]

SeriesFresh ==
    /\ seasonal_period = Fresh.seasonal_period
    /\ adf_confidence = Fresh.adf_confidence
    /\ ts_data = Fresh.ts_data
    /\ adf_result = Fresh.adf_result
    /\ critical_threshold = Fresh.critical_threshold
    /\ stationarity = Fresh.stationarity
    /\ acf_values = Fresh.acf_values
    /\ colors = Fresh.colors
    /\ decomposition = Fresh.decomposition

RiskFresh ==
    /\ service_times = Fresh.service_times
    /\ q99 = Fresh.q99
    /\ service_times_clean = Fresh.service_times_clean
    /\ var_95 = Fresh.var_95
    /\ var_99 = Fresh.var_99
    /\ x_axis = Fresh.x_axis
    /\ dx = Fresh.dx
    /\ pdf_total = Fresh.pdf_total
    /\ x_total = Fresh.x_total

RestFresh ==
    /\ Pt = Fresh.Pt
    /\ prob_crash = Fresh.prob_crash
    /\ P_t = Fresh.P_t
    /\ crash_probs = Fresh.crash_probs
    /\ time_to_5pct = Fresh.time_to_5pct
    /\ time_to_risk_cell = Fresh.time_to_risk_cell
    /\ eigenvalues = Fresh.eigenvalues
    /\ eigen_data = Fresh.eigen_data
    /\ relaxation_time = Fresh.relaxation_time
    /\ dataset_present = Fresh.dataset_present
    /\ orders_df = Fresh.orders_df
    /\ items_df = Fresh.items_df
    /\ get_data_cache = Fresh.get_data_cache
    /\ processed_log = Fresh.processed_log
    /\ load_result = Fresh.load_result
    /\ df = Fresh.df
    /\ RiskFresh
    /\ SeriesFresh
    /\ page = Fresh.page

Init ==
    /\ pc = "sidebar"
    /\ naive_inspection_rate = Fresh.naive_inspection_rate
    /\ num_servers = Fresh.num_servers
    /\ batch_size = Fresh.batch_size
    /\ naive_sample_n = Fresh.naive_sample_n
    /\ real_defect_rate = Fresh.real_defect_rate
    /\ acceptance_number = Fresh.acceptance_number
    /\ M = Fresh.M
    /\ prob_accept = Fresh.prob_accept
    /\ M_sim = Fresh.M_sim
    /\ probs_accept = Fresh.probs_accept
    /\ lambda_rate = Fresh.lambda_rate
    /\ service_capacity = Fresh.service_capacity
    /\ utilization = Fresh.utilization
    /\ stress_factor = Fresh.stress_factor
    /\ up_rate = Fresh.up_rate
    /\ down_rate = Fresh.down_rate
    /\ failure_rate = Fresh.failure_rate
    /\ Q = Fresh.Q
    /\ RestFresh

(***************************************************************************)
(* Sidebar: the two global inputs.                                         *)
(***************************************************************************)
Sidebar ==
    /\ pc = "sidebar"
    /\ \E rate \in InspectionRates, servers \in ServerCounts :
          /\ naive_inspection_rate' = DoubleOfRatio(rate, 100)
          /\ num_servers' = servers
    /\ pc' = "tab1"
    /\ UNCHANGED <<samplingVars, ocVars, markovVars, restVars>>

(***************************************************************************)
(* Tab 1: the sampling plan and its acceptance probability.                *)
(***************************************************************************)
SampleSize(N, rate) == IntOfDouble(DoubleTimesInt(rate, N))

DefectCount(N, rate) == IntOfDouble(DoubleTimesInt(rate, N))

AcceptProbability(c, N, defects, n) == HypergeomCdf(c, N, defects, n)

Tab1Sampling ==
    /\ pc = "tab1"
    /\ \E N \in BatchSizes, percent \in DefectPercents, c \in AcceptanceNumbers :
          LET n == SampleSize(N, naive_inspection_rate)
              rate == DoubleOfRatio(percent, 100)
              defects == DefectCount(N, rate)
          IN  /\ batch_size' = N
              /\ naive_sample_n' = n
              /\ real_defect_rate' = rate
              /\ acceptance_number' = c
              /\ M' = defects
              /\ prob_accept' = AcceptProbability(c, N, defects, n)
    /\ probs_accept' = <<>>
    /\ pc' = "oc"
    /\ UNCHANGED <<sidebarVars, M_sim, markovVars, restVars>>

(***************************************************************************)
(* The OC curve: one iteration of the loop over defect_rates.              *)
(***************************************************************************)
Min(a, b) == IF a <= b THEN a ELSE b
Max(a, b) == IF a >= b THEN a ELSE b

\* the count rounded to the nearest integer instead of truncated
SimulatedDefectsRounded(N, p) == Max(0, Min(RoundOfDouble(DoubleTimesInt(p, N)), N))

SimulatedDefects(N, p) == Max(0, Min(IntOfDouble(DoubleTimesInt(p, N)), N))

OCStep ==
    /\ pc = "oc"
    /\ Len(probs_accept) < GridPoints
    /\ LET p == defect_rates[Len(probs_accept)]
           defects == SimulatedDefects(batch_size, p)
           prob == AcceptProbability(acceptance_number, batch_size, defects, naive_sample_n)
       IN  /\ M_sim' = defects
           /\ probs_accept' = Append(probs_accept, prob)
    /\ pc' = IF Len(probs_accept) + 1 = GridPoints THEN "tab5" ELSE "oc"
    /\ UNCHANGED <<sidebarVars, samplingVars, markovVars, restVars>>

(***************************************************************************)
(* Tab 5: the generator matrix of the four-state chain                     *)
(* Idle(1), Busy(2), Overload(3), Failure(4)  (rows/columns 0..3 in numpy).*)
(***************************************************************************)
ServiceRatePerServer == 2
RateScale == 20
DangerThreshold == Rat(9, 10)

Utilization(lambda, capacity) == Rat(lambda, capacity)

StressFactor(rho) == RatDiv(rho, RatSub(RatOfInt(2), rho))

UpRate(lambda, stress) == RatDiv(RatMul(RatOfInt(lambda), stress), RatOfInt(RateScale))

DownRate(capacity) == Rat(capacity, RateScale)

\* the accelerated rate already at the threshold itself
FailureRateInclusive(up, rho) ==
    IF RatLeq(DangerThreshold, rho) THEN RatMul(up, RatOfInt(2)) ELSE RatMul(up, Rat(1, 2))

FailureRate(up, rho) ==
    IF RatLess(DangerThreshold, rho)
    THEN RatMul(up, RatOfInt(2))
    ELSE RatMul(up, Rat(1, 2))

\* the Overload row as the comment above the matrix writes it: -(u+d) on the
\* diagonal beside the failure rate
GeneratorAsCommented(u, d, f) ==
    << <<RatNeg(u), u, RatZero, RatZero>>,
       <<d, RatNeg(RatAdd(u, d)), u, RatZero>>,
       <<RatZero, d, RatNeg(RatAdd(u, d)), f>>,
       <<RatZero, RatZero, RatZero, RatZero>> >>

\* a repair transition out of Failure
GeneratorWithRepair(u, d, f) ==
    << <<RatNeg(u), u, RatZero, RatZero>>,
       <<d, RatNeg(RatAdd(u, d)), u, RatZero>>,
       <<RatZero, d, RatNeg(RatAdd(f, d)), f>>,
       <<RatZero, RatZero, d, RatNeg(d)>> >>

\* no transition into Failure
GeneratorWithoutFailure(u, d, f) ==
    << <<RatNeg(u), u, RatZero, RatZero>>,
       <<d, RatNeg(RatAdd(u, d)), u, RatZero>>,
       <<RatZero, d, RatNeg(d), RatZero>>,
       <<RatZero, RatZero, RatZero, RatZero>> >>

Generator(u, d, f) ==
    << <<RatNeg(u), u, RatZero, RatZero>>,
       <<d, RatNeg(RatAdd(u, d)), u, RatZero>>,
       <<RatZero, d, RatNeg(RatAdd(f, d)), f>>,
       <<RatZero, RatZero, RatZero, RatZero>> >>

\* lambda_rate, service_capacity and utilization are bound, then Q is built
Tab5BuildQ ==
    /\ pc = "tab5"
    /\ \E lambda \in ArrivalRates :
          LET capacity == num_servers * ServiceRatePerServer
              rho == Utilization(lambda, capacity)
              stress == StressFactor(rho)
              u == UpRate(lambda, stress)
              d == DownRate(capacity)
              f == FailureRate(u, rho)
          IN  /\ RatSub(RatOfInt(2), rho) # RatZero
              /\ lambda_rate' = lambda
              /\ service_capacity' = capacity
              /\ utilization' = rho
              /\ stress_factor' = stress
              /\ up_rate' = u
              /\ down_rate' = d
              /\ failure_rate' = f
              /\ Q' = Generator(u, d, f)
    /\ pc' = "done"
    /\ UNCHANGED <<sidebarVars, samplingVars, ocVars, restVars>>

\* 2 - utilization is 0.0: the division raises ZeroDivisionError and the run
\* ends there, with stress_factor and everything after it unbound
Tab5ZeroDivision ==
    /\ pc = "tab5"
    /\ \E lambda \in ArrivalRates :
          LET capacity == num_servers * ServiceRatePerServer
              rho == Utilization(lambda, capacity)
          IN  /\ RatSub(RatOfInt(2), rho) = RatZero
              /\ lambda_rate' = lambda
              /\ service_capacity' = capacity
              /\ utilization' = rho
    /\ pc' = "error"
    /\ UNCHANGED <<sidebarVars, samplingVars, ocVars, stress_factor,
                   up_rate, down_rate, failure_rate, Q, restVars>>

(***************************************************************************)
(* Any interaction re-executes the script from the top, in a new           *)
(* namespace.                                                              *)
(***************************************************************************)
Rerun ==
    /\ pc \in {"done", "error"}
    /\ pc' = "sidebar"
    /\ naive_inspection_rate' = Fresh.naive_inspection_rate
    /\ num_servers' = Fresh.num_servers
    /\ batch_size' = Fresh.batch_size
    /\ naive_sample_n' = Fresh.naive_sample_n
    /\ real_defect_rate' = Fresh.real_defect_rate
    /\ acceptance_number' = Fresh.acceptance_number
    /\ M' = Fresh.M
    /\ prob_accept' = Fresh.prob_accept
    /\ M_sim' = Fresh.M_sim
    /\ probs_accept' = Fresh.probs_accept
    /\ lambda_rate' = Fresh.lambda_rate
    /\ service_capacity' = Fresh.service_capacity
    /\ utilization' = Fresh.utilization
    /\ stress_factor' = Fresh.stress_factor
    /\ up_rate' = Fresh.up_rate
    /\ down_rate' = Fresh.down_rate
    /\ failure_rate' = Fresh.failure_rate
    /\ Q' = Fresh.Q
    /\ Pt' = Fresh.Pt
    /\ prob_crash' = Fresh.prob_crash
    /\ P_t' = Fresh.P_t
    /\ crash_probs' = Fresh.crash_probs
    /\ time_to_5pct' = Fresh.time_to_5pct
    /\ time_to_risk_cell' = Fresh.time_to_risk_cell
    /\ eigenvalues' = Fresh.eigenvalues
    /\ eigen_data' = Fresh.eigen_data
    /\ relaxation_time' = Fresh.relaxation_time
    /\ load_result' = Fresh.load_result
    /\ df' = Fresh.df
    /\ service_times' = Fresh.service_times
    /\ q99' = Fresh.q99
    /\ service_times_clean' = Fresh.service_times_clean
    /\ var_95' = Fresh.var_95
    /\ var_99' = Fresh.var_99
    /\ x_axis' = Fresh.x_axis
    /\ dx' = Fresh.dx
    /\ pdf_total' = Fresh.pdf_total
    /\ x_total' = Fresh.x_total
    /\ seasonal_period' = Fresh.seasonal_period
    /\ adf_confidence' = Fresh.adf_confidence
    /\ ts_data' = Fresh.ts_data
    /\ adf_result' = Fresh.adf_result
    /\ critical_threshold' = Fresh.critical_threshold
    /\ stationarity' = Fresh.stationarity
    /\ acf_values' = Fresh.acf_values
    /\ colors' = Fresh.colors
    /\ decomposition' = Fresh.decomposition
    /\ page' = Fresh.page
    /\ UNCHANGED fileVars

Next ==
    \/ Sidebar
    \/ Tab1Sampling
    \/ OCStep
    \/ Tab5BuildQ
    \/ Tab5ZeroDivision
    \/ Rerun

Spec == Init /\ [][Next]_vars

(***************************************************************************)
(* The acceptance probability as a function of the plan: every plan over a *)
(* small population, and the plan of the dashboard's default widget values *)
(* (batch 1000, inspection 10 %, defects 5 %, c = 0).                      *)
(***************************************************************************)
MaxPopulation == 5

DefaultBatchSize == 1000
DefaultInspectionRate == 10
DefaultDefectPercent == 5
DefaultAcceptanceNumber == 0

PlanValid(N, defects, n, c) ==
    /\ 0 <= defects /\ defects <= N
    /\ 0 <= n /\ n <= N
    /\ 0 <= c /\ c <= n

SmallPlans ==
    {plan \in [N : 0..MaxPopulation, M : 0..MaxPopulation,
               n : 0..MaxPopulation, c : 0..MaxPopulation] :
        PlanValid(plan.N, plan.M, plan.n, plan.c)}

DefaultPlan ==
    [N |-> DefaultBatchSize,
     M |-> DefectCount(DefaultBatchSize, DoubleOfRatio(DefaultDefectPercent, 100)),
     n |-> SampleSize(DefaultBatchSize, DoubleOfRatio(DefaultInspectionRate, 100)),
     c |-> DefaultAcceptanceNumber]

PlanInit ==
    /\ pc = "plan"
    /\ \E plan \in SmallPlans \cup {DefaultPlan} :
          /\ batch_size = plan.N
          /\ M = plan.M
          /\ naive_sample_n = plan.n
          /\ acceptance_number = plan.c
    /\ naive_inspection_rate = Fresh.naive_inspection_rate
    /\ num_servers = Fresh.num_servers
    /\ real_defect_rate = Fresh.real_defect_rate
    /\ prob_accept = Fresh.prob_accept
    /\ M_sim = Fresh.M_sim
    /\ probs_accept = Fresh.probs_accept
    /\ lambda_rate = Fresh.lambda_rate
    /\ service_capacity = Fresh.service_capacity
    /\ utilization = Fresh.utilization
    /\ stress_factor = Fresh.stress_factor
    /\ up_rate = Fresh.up_rate
    /\ down_rate = Fresh.down_rate
    /\ failure_rate = Fresh.failure_rate
    /\ Q = Fresh.Q
    /\ RestFresh

PlanEvaluate ==
    /\ pc = "plan"
    /\ prob_accept' = AcceptProbability(acceptance_number, batch_size, M, naive_sample_n)
    /\ pc' = "evaluated"
    /\ UNCHANGED <<sidebarVars, batch_size, naive_sample_n, real_defect_rate,
                   acceptance_number, M, ocVars, markovVars, restVars>>

PlanNext == PlanEvaluate

SpecPlan == PlanInit /\ [][PlanNext]_vars

(***************************************************************************)
(* Tab 5 after the generator matrix: the state distribution at one hour,   *)
(* the crash-probability curve over the horizon, the time to 5 % risk and  *)
(* the summary table.  MarkovInit is a run arriving at tab 5; the names of *)
(* tabs 1 to 4, which tab 5 does not read, are left unbound.               *)
(***************************************************************************)
P0 == <<DecOne, DecZero, DecZero, DecZero>>
t_target == RatOfInt(1)

HorizonPoints == 100
HorizonEnd == 5
\* np.linspace(0, 5, 100)
time_horizon ==
    [i \in 0..HorizonPoints - 1 |-> Rat(HorizonEnd * i, HorizonPoints - 1)]

\* Q * t
TimesRow(r, t) ==
    <<DecOfRat(RatMul(r[1], t)), DecOfRat(RatMul(r[2], t)),
      DecOfRat(RatMul(r[3], t)), DecOfRat(RatMul(r[4], t))>>
QTimes(Qm, t) == <<TimesRow(Qm[1], t), TimesRow(Qm[2], t), TimesRow(Qm[3], t), TimesRow(Qm[4], t)>>

\* P0 @ expm(Q * t)
StateAt(Qm, t) == Value({VecMat(P0, E) : E \in {expm(QTimes(Qm, t))}})

MarkovInit ==
    /\ pc = "tab5"
    /\ num_servers \in ServerCounts
    /\ naive_inspection_rate = Fresh.naive_inspection_rate
    /\ batch_size = Fresh.batch_size
    /\ naive_sample_n = Fresh.naive_sample_n
    /\ real_defect_rate = Fresh.real_defect_rate
    /\ acceptance_number = Fresh.acceptance_number
    /\ M = Fresh.M
    /\ prob_accept = Fresh.prob_accept
    /\ M_sim = Fresh.M_sim
    /\ probs_accept = Fresh.probs_accept
    /\ lambda_rate = Fresh.lambda_rate
    /\ service_capacity = Fresh.service_capacity
    /\ utilization = Fresh.utilization
    /\ stress_factor = Fresh.stress_factor
    /\ up_rate = Fresh.up_rate
    /\ down_rate = Fresh.down_rate
    /\ failure_rate = Fresh.failure_rate
    /\ Q = Fresh.Q
    /\ RestFresh

TransientAtTarget ==
    /\ pc = "done"
    /\ \E v \in {StateAt(Q, t_target)} :
           /\ Pt' = v
           /\ prob_crash' = v[4]
    /\ pc' = "horizon"
    /\ UNCHANGED <<sidebarVars, samplingVars, ocVars, markovVars,
                   P_t, crash_probs, time_to_5pct, time_to_risk_cell, eigenVars,
                   fileVars, loaderVars, riskVars, convVars, seriesVars, page>>

HorizonStep ==
    /\ pc = "horizon"
    /\ Len(crash_probs) < HorizonPoints
    /\ LET t == time_horizon[Len(crash_probs)]
       IN  IF t = RatZero
           THEN /\ crash_probs' = Append(crash_probs, DecZero)
                /\ UNCHANGED P_t
           ELSE \E v \in {StateAt(Q, t)} :
                    /\ P_t' = v
                    /\ crash_probs' = Append(crash_probs, v[4])
    /\ pc' = IF Len(crash_probs) + 1 = HorizonPoints THEN "risk" ELSE "horizon"
    /\ UNCHANGED <<sidebarVars, samplingVars, ocVars, markovVars,
                   Pt, prob_crash, time_to_5pct, time_to_risk_cell, eigenVars,
                   fileVars, loaderVars, riskVars, convVars, seriesVars, page>>

RiskThreshold == DecOfRat(Rat(5, 100))

\* np.where(np.array(crash_probs) >= 0.05)[0], as positions 1..Len
Crossings(probs, threshold) ==
    {i \in 1..Len(probs) : DecLeq(threshold, probs[i])}

\* the last crossing instead of the first
LastCrossing(probs, threshold) ==
    CHOOSE i \in Crossings(probs, threshold) :
        \A j \in Crossings(probs, threshold) : j <= i

\* ...[0][0]
FirstCrossing(probs, threshold) ==
    CHOOSE i \in Crossings(probs, threshold) :
        \A j \in Crossings(probs, threshold) : i <= j

\* try: time_to_5pct = ... except: pass -- with no crossing [0][0] raises
\* IndexError, which is swallowed, and time_to_5pct stays unbound
TimeToRisk ==
    /\ pc = "risk"
    /\ IF Crossings(crash_probs, RiskThreshold) # {}
       THEN time_to_5pct' = time_horizon[FirstCrossing(crash_probs, RiskThreshold) - 1]
       ELSE UNCHANGED time_to_5pct
    /\ pc' = "eigen"
    /\ UNCHANGED <<sidebarVars, samplingVars, ocVars, markovVars,
                   Pt, prob_crash, P_t, crash_probs, time_to_risk_cell, eigenVars,
                   fileVars, loaderVars, riskVars, convVars, seriesVars, page>>

(***************************************************************************)
(* np.linalg.eig(Q).  The Failure row of Q is zero, so the characteristic  *)
(* polynomial of Q is x times that of its leading 3 x 3 block B: one       *)
(* eigenvalue is 0 and the others are the roots of                         *)
(* x^3 + c2 x^2 + c1 x + c0.  One real root is found by bisection inside   *)
(* the Cauchy bound, the other two from the quadratic left after dividing  *)
(* it out (a real pair or a complex-conjugate pair).  Eigenvalues are      *)
(* [re, im] pairs of decimals.                                             *)
(***************************************************************************)
Minor2(B, i, j) == DecSub(DecMul(B[i][i], B[j][j]), DecMul(B[i][j], B[j][i]))

Det3(B) ==
    DecAdd(DecSub(DecMul(B[1][1], DecSub(DecMul(B[2][2], B[3][3]), DecMul(B[2][3], B[3][2]))),
                  DecMul(B[1][2], DecSub(DecMul(B[2][1], B[3][3]), DecMul(B[2][3], B[3][1])))),
           DecMul(B[1][3], DecSub(DecMul(B[2][1], B[3][2]), DecMul(B[2][2], B[3][1]))))

CharPoly(B) ==
    [c2 |-> DecNeg(DecAdd(DecAdd(B[1][1], B[2][2]), B[3][3])),
     c1 |-> DecAdd(DecAdd(Minor2(B, 1, 2), Minor2(B, 1, 3)), Minor2(B, 2, 3)),
     c0 |-> DecNeg(Det3(B))]

CubicAt(c, x) ==
    DecAdd(DecMul(DecAdd(DecMul(DecAdd(x, c.c2), x), c.c1), x), c.c0)

MaxBisections == 200

\* a root between lo (where the cubic is negative) and hi (where it is not)
RECURSIVE Bisect(_, _, _, _)
Bisect(c, lo, hi, n) ==
    LET mid == DecHalf(DecAdd(lo, hi))
    IN  IF n = 0 \/ mid = lo \/ mid = hi THEN mid
        ELSE IF CubicAt(c, mid).m < 0 THEN Bisect(c, mid, hi, n - 1)
        ELSE Bisect(c, lo, mid, n - 1)

CauchyBound(c) == DecAdd(DecOne, DecMax(DecMax(DecAbs(c.c2), DecAbs(c.c1)), DecAbs(c.c0)))

RealRoot(c) == Value({Bisect(c, DecNeg(bound), bound, MaxBisections) : bound \in {CauchyBound(c)}})

Real(x) == [re |-> x, im |-> DecZero]

ComplexPair(b, disc) ==
    Value({<<[re |-> DecNeg(DecHalf(b)), im |-> im], [re |-> DecNeg(DecHalf(b)), im |-> DecNeg(im)]>> :
           im \in {DecHalf(DecSqrt(DecNeg(disc)))}})

RealPair(b, c, disc) ==
    Value({IF q.m = 0 THEN <<Real(DecZero), Real(DecZero)>> ELSE <<Real(q), Real(DecDiv(c, q))>> :
           q \in {Value({DecNeg(DecHalf(IF b.m < 0 THEN DecSub(b, root) ELSE DecAdd(b, root))) :
                         root \in {DecSqrt(disc)}})}})

\* the roots of x^2 + b x + c
QuadraticRoots(b, c) ==
    Value({IF disc.m < 0 THEN ComplexPair(b, disc) ELSE RealPair(b, c, disc) :
           disc \in {DecSub(DecMul(b, b), DecMul(DecOfInt(4), c))}})

Deflated(c, r) ==
    Value({<<Real(DecZero), Real(r)>> \o Value({QuadraticRoots(b, c0) : c0 \in {DecAdd(c.c1, DecMul(r, b))}}) :
           b \in {DecAdd(c.c2, r)}})

EigOfPoly(c) == Value({Deflated(c, r) : r \in {RealRoot(c)}})

Eig(Qm) == Value({EigOfPoly(c) : c \in {Value({CharPoly(B) : B \in {QTimes(Qm, RatOfInt(1))}})}})

\* np.abs of a complex number
Magnitude(ev) ==
    IF ev.im.m = 0 THEN DecAbs(ev.re)
    ELSE DecSqrt(DecAdd(DecMul(ev.re, ev.re), DecMul(ev.im, ev.im)))

\* eigenvalues[np.argsort(np.abs(eigenvalues))]
RECURSIVE Insert(_, _, _)
Insert(sorted, ev, i) ==
    IF i > Len(sorted) THEN Append(sorted, ev)
    ELSE IF DecLess(Magnitude(ev), Magnitude(sorted[i]))
         THEN SubSeq(sorted, 1, i - 1) \o <<ev>> \o SubSeq(sorted, i, Len(sorted))
         ELSE Insert(sorted, ev, i + 1)

RECURSIVE SortByMagnitude(_, _)
SortByMagnitude(evs, i) ==
    IF i = 0 THEN <<>>
    ELSE Value({Insert(sorted, evs[i], 1) : sorted \in {SortByMagnitude(evs, i - 1)}})

ZeroMagnitude == DecNorm(1, -10)
Infinite == [m |-> 0, e |-> 1]
Inverse(x) == DecDiv(DecOne, x)

\* the Timescale and Interpretation columns of eigen_data
EigenRow(ev) ==
    [timescale |-> IF DecLess(ZeroMagnitude, Magnitude(ev))
                   THEN Inverse(Magnitude(ev)) ELSE Infinite,
     interpretation |-> IF DecLess(Magnitude(ev), ZeroMagnitude)
                        THEN Infinite ELSE Inverse(Magnitude(ev))]

\* the largest remaining eigenvalue taken instead of the smallest
DominantLargest(evs) ==
    LET IsNonZero(ev) == DecLess(ZeroMagnitude, Magnitude(ev))
        non_zero_eigenvalues == SelectSeq(evs, IsNonZero)
    IN  non_zero_eigenvalues[Len(non_zero_eigenvalues)]

\* non_zero_eigenvalues[0]
Dominant(evs) ==
    LET IsNonZero(ev) == DecLess(ZeroMagnitude, Magnitude(ev))
        non_zero_eigenvalues == SelectSeq(evs, IsNonZero)
    IN  non_zero_eigenvalues[1]

HasNonZero(evs) == \E i \in 1..Len(evs) : DecLess(ZeroMagnitude, Magnitude(evs[i]))

EigenAnalysis ==
    /\ pc = "eigen"
    /\ \E evs \in {SortByMagnitude(Eig(Q), 4)} :
           /\ eigenvalues' = evs
           /\ eigen_data' = [i \in 1..Len(evs) |-> EigenRow(evs[i])]
           /\ IF HasNonZero(evs)
              THEN relaxation_time' = Inverse(Magnitude(Dominant(evs)))
              ELSE UNCHANGED relaxation_time
    /\ pc' = "summary"
    /\ UNCHANGED <<sidebarVars, samplingVars, ocVars, markovVars, transientVars,
                   fileVars, loaderVars, riskVars, convVars, seriesVars, page>>

\* a time at the end of the horizon reported when none was found
TimeToRiskCellExtrapolated(time) ==
    IF time # NoRat THEN [text |-> "hours", value |-> time]
    ELSE [text |-> "hours", value |-> RatOfInt(HorizonEnd)]

\* f'{time_to_5pct:.2f} hours' if 'time_to_5pct' in locals() else '>5 hours'
TimeToRiskCell(time) ==
    IF time # NoRat THEN [text |-> "hours", value |-> time]
    ELSE [text |-> ">5 hours", value |-> NoRat]

Summary ==
    /\ pc = "summary"
    /\ time_to_risk_cell' = TimeToRiskCell(time_to_5pct)
    /\ pc' = "end"
    /\ UNCHANGED <<sidebarVars, samplingVars, ocVars, markovVars,
                   Pt, prob_crash, P_t, crash_probs, time_to_5pct, eigenVars,
                   fileVars, loaderVars, riskVars, convVars, seriesVars, page>>

MarkovNext ==
    \/ Tab5BuildQ
    \/ Tab5ZeroDivision
    \/ TransientAtTarget
    \/ HorizonStep
    \/ TimeToRisk
    \/ EigenAnalysis
    \/ Summary

SpecMarkov == MarkovInit /\ [][MarkovNext]_vars

(***************************************************************************)
(* The data pipeline (src/data_processor.py), get_data, and the parts of   *)
(* tabs 2 and 3 that read the table.  An order row carries the two         *)
(* timestamps the service time is computed from, in whole days; the rows   *)
(* are in purchase order.  items_df is the set of orders that have items.  *)
(* The columns the checked properties do not read (inter-arrival time,     *)
(* price, defect flag) are left out.                                       *)
(***************************************************************************)
NaT == -1
MaxDay == 2
MaxOrders == 2
Timestamps == {NaT} \cup 0..MaxDay

OrderRows == [order_approved_at : Timestamps, order_delivered_carrier_date : Timestamps]

RawTables == UNION {[1..n -> OrderRows] : n \in 0..MaxOrders}

NaN == [nan |-> TRUE, days |-> 0]
Days(x) == [nan |-> FALSE, days |-> x]

\* (delivered - approved).dt.total_seconds() / (24 * 3600)
ServiceTime(row) ==
    IF row.order_approved_at = NaT \/ row.order_delivered_carrier_date = NaT THEN NaN
    ELSE Days(row.order_delivered_carrier_date - row.order_approved_at)

\* a comparison with NaN is False
IsPositive(x) == ~x.nan /\ x.days > 0

\* the rows with service_time >= 0 kept
KeepNonNegative(x) == ~x.nan /\ x.days >= 0

\* orders_df[orders_df['service_time'] > 0]
KeepRow(x) == IsPositive(x)

\* to_csv writes NaN as an empty cell and a number as its digits
CsvCell(x) == IF x.nan THEN [blank |-> TRUE, digits |-> 0] ELSE [blank |-> FALSE, digits |-> x.days]
\* read_csv reads an empty cell as NaN
ReadCell(c) == IF c.blank THEN NaN ELSE Days(c.digits)

ProcessedRows(orders, items) ==
    LET timed == [i \in 1..Len(orders) |->
                     [order_id |-> i, service_time |-> ServiceTime(orders[i])]]
        Kept(r) == KeepRow(r.service_time) /\ r.order_id \in items
    IN  SelectSeq(timed, Kept)

WriteCsv(rows) ==
    [exists |-> TRUE,
     rows |-> [i \in 1..Len(rows) |->
                  [order_id |-> rows[i].order_id, service_time |-> CsvCell(rows[i].service_time)]]]

\* the purchase timestamps are text in the file and come back as strings
ReadCsv(file) ==
    [kind |-> "DataFrame",
     rows |-> [i \in 1..Len(file.rows) |->
                  [order_id |-> file.rows[i].order_id,
                   service_time |-> ReadCell(file.rows[i].service_time)]],
     order_purchase_timestamp |-> "object"]

None == [kind |-> "None", rows |-> <<>>, order_purchase_timestamp |-> "None"]

orders_path == "dataset/olist_orders_dataset.csv"
items_path == "dataset/olist_order_items_dataset.csv"
RawFiles == {orders_path, items_path}

\* only the orders file looked for
OrdersFound(present) == orders_path \in present

\* pd.read_csv(self.orders_path); pd.read_csv(self.items_path) without
\* FileNotFoundError
FilesFound(present) == RawFiles \subseteq present

DataReady == "Processed Data Ready"
DataNotFound == "Data Not Found"
PipelineRequired ==
    "Please run the Data Pipeline in the sidebar to generate the Digital Twin data."
MissingFiles == "Error: Could not find dataset files."

\* the server process starts: nothing cached, processed_log.csv not written
DataInit ==
    /\ pc = "pipeline"
    /\ dataset_present \in SUBSET RawFiles
    /\ orders_df \in RawTables
    /\ items_df \in SUBSET (1..Len(orders_df))
    /\ processed_log = NoFile
    /\ get_data_cache = NoTable
    /\ load_result = Fresh.load_result
    /\ df = Fresh.df
    /\ RiskFresh
    /\ SeriesFresh
    /\ page = Fresh.page
    /\ naive_inspection_rate = Fresh.naive_inspection_rate
    /\ num_servers = Fresh.num_servers
    /\ batch_size = Fresh.batch_size
    /\ naive_sample_n = Fresh.naive_sample_n
    /\ real_defect_rate = Fresh.real_defect_rate
    /\ acceptance_number = Fresh.acceptance_number
    /\ M = Fresh.M
    /\ prob_accept = Fresh.prob_accept
    /\ M_sim = Fresh.M_sim
    /\ probs_accept = Fresh.probs_accept
    /\ lambda_rate = Fresh.lambda_rate
    /\ service_capacity = Fresh.service_capacity
    /\ utilization = Fresh.utilization
    /\ stress_factor = Fresh.stress_factor
    /\ up_rate = Fresh.up_rate
    /\ down_rate = Fresh.down_rate
    /\ failure_rate = Fresh.failure_rate
    /\ Q = Fresh.Q
    /\ Pt = Fresh.Pt
    /\ prob_crash = Fresh.prob_crash
    /\ P_t = Fresh.P_t
    /\ crash_probs = Fresh.crash_probs
    /\ time_to_5pct = Fresh.time_to_5pct
    /\ time_to_risk_cell = Fresh.time_to_risk_cell
    /\ eigenvalues = Fresh.eigenvalues
    /\ eigen_data = Fresh.eigen_data
    /\ relaxation_time = Fresh.relaxation_time

dataFrame == <<sidebarVars, samplingVars, ocVars, markovVars, transientVars, eigenVars>>

\* a new run of the script: the names of the previous run are gone
NewRun ==
    /\ load_result' = Fresh.load_result
    /\ df' = Fresh.df
    /\ service_times' = Fresh.service_times
    /\ q99' = Fresh.q99
    /\ service_times_clean' = Fresh.service_times_clean
    /\ var_95' = Fresh.var_95
    /\ var_99' = Fresh.var_99
    /\ x_axis' = Fresh.x_axis
    /\ dx' = Fresh.dx
    /\ pdf_total' = Fresh.pdf_total
    /\ x_total' = Fresh.x_total
    /\ seasonal_period' = Fresh.seasonal_period
    /\ adf_confidence' = Fresh.adf_confidence
    /\ ts_data' = Fresh.ts_data
    /\ adf_result' = Fresh.adf_result
    /\ critical_threshold' = Fresh.critical_threshold
    /\ stationarity' = Fresh.stationarity
    /\ acf_values' = Fresh.acf_values
    /\ colors' = Fresh.colors
    /\ decomposition' = Fresh.decomposition

\* the sidebar passed without the pipeline running: processed_log.csv is
\* there, or the button is shown and was not the widget that started the run
PipelineNotRun ==
    /\ pc = "pipeline"
    /\ page' = page \cup {IF processed_log.exists THEN DataReady ELSE DataNotFound}
    /\ pc' = "get_data"
    /\ UNCHANGED <<dataFrame, fileVars, loaderVars, riskVars, convVars, seriesVars>>

\* 'Run Data Pipeline' is on the page only while processed_log.csv is
\* missing; pressing it starts a run in which the button reads True
PressRunPipeline ==
    /\ pc = "stopped"
    /\ ~processed_log.exists
    /\ NewRun
    /\ page' = {DataNotFound}
    /\ pc' = "pressed"
    /\ UNCHANGED <<dataFrame, fileVars>>

\* both raw files found: the table is filtered and written
LoadAndProcess ==
    /\ pc = "pressed"
    /\ FilesFound(dataset_present)
    /\ processed_log' = WriteCsv(ProcessedRows(orders_df, items_df))
    /\ load_result' = [kind |-> "DataFrame", message |-> "Success"]
    /\ page' = page \cup {"Success"}
    /\ pc' = "loaded"
    /\ UNCHANGED <<dataFrame, dataset_present, orders_df, items_df, get_data_cache,
                   df, riskVars, convVars, seriesVars>>

\* if df is not None: st.sidebar.success(msg); st.rerun()
RerunAfterLoad ==
    /\ pc = "loaded"
    /\ NewRun
    /\ page' = {}
    /\ pc' = "pipeline"
    /\ UNCHANGED <<dataFrame, fileVars>>

\* a raw file is missing: read_csv raises FileNotFoundError, which is caught;
\* the message ends with the text of the exception; st.sidebar.error(msg)
LoadAndProcessMissing ==
    /\ pc = "pressed"
    /\ ~FilesFound(dataset_present)
    /\ load_result' = [kind |-> "None", message |-> MissingFiles]
    /\ page' = page \cup {MissingFiles}
    /\ pc' = "get_data"
    /\ UNCHANGED <<dataFrame, fileVars, df, riskVars, convVars, seriesVars>>

\* the body of get_data
ReadProcessedLog == IF processed_log.exists THEN ReadCsv(processed_log) ELSE None

\* every tab entered although there is no table
AfterGetDataUnchecked(value) == "tab2"

\* if df is None: st.error(...); st.stop()
AfterGetData(value) == IF value = None THEN "stopped" ELSE "tab2"

\* df = get_data() under @st.cache_data: the body runs only when nothing is
\* cached, and whatever it returns, None too, is cached
GetData ==
    /\ pc = "get_data"
    /\ \E value \in {IF get_data_cache = NoTable THEN ReadProcessedLog ELSE get_data_cache} :
           /\ get_data_cache' = value
           /\ df' = value
           /\ page' = IF value = None THEN page \cup {PipelineRequired} ELSE page
           /\ pc' = AfterGetData(value)
    /\ UNCHANGED <<dataFrame, dataset_present, orders_df, items_df, processed_log,
                   load_result, riskVars, convVars, seriesVars>>

\* the server process is started again, or the cache is cleared from the
\* menu, and the page is loaded
Restart ==
    /\ pc \in {"stopped", "error", "tab4"}
    /\ get_data_cache' = NoTable
    /\ NewRun
    /\ page' = {}
    /\ pc' = "pipeline"
    /\ UNCHANGED <<dataFrame, dataset_present, orders_df, items_df, processed_log>>

RECURSIVE InsertSorted(_, _, _)
InsertSorted(sorted, x, i) ==
    IF i > Len(sorted) THEN Append(sorted, x)
    ELSE IF x < sorted[i]
         THEN SubSeq(sorted, 1, i - 1) \o <<x>> \o SubSeq(sorted, i, Len(sorted))
         ELSE InsertSorted(sorted, x, i + 1)

RECURSIVE Sorted(_, _)
Sorted(xs, i) == IF i = 0 THEN <<>> ELSE InsertSorted(Sorted(xs, i - 1), xs[i], 1)

NaNValue == [n |-> 1, d |-> 0]

\* the q-th percentile by linear interpolation between the order statistics
\* at position (n - 1) * q / 100; NaN for no data
Percentile(xs, q) ==
    IF xs = <<>> THEN NaNValue
    ELSE LET sorted == Sorted(xs, Len(xs))
             position == (Len(xs) - 1) * q
             below == position \div 100 + 1
             fraction == position % 100
         IN  IF fraction = 0 THEN RatOfInt(sorted[below])
             ELSE RatAdd(RatOfInt(sorted[below]),
                         Rat((sorted[below + 1] - sorted[below]) * fraction, 100))

\* df['service_time'].dropna()
DropNa(table) ==
    LET NotNa(r) == ~r.service_time.nan
        kept == SelectSeq(table.rows, NotNa)
    IN  [i \in 1..Len(kept) |-> kept[i].service_time.days]

\* service_times[service_times < q99]
BelowQuantile(xs, q) ==
    LET Below(x) == q # NaNValue /\ RatLess(RatOfInt(x), q) IN SelectSeq(xs, Below)

Squares(xs) == [i \in 1..Len(xs) |-> xs[i] * xs[i]]

Tab2VaR ==
    /\ pc = "tab2"
    /\ LET times == DropNa(df)
           q == Percentile(times, 99)
           clean == BelowQuantile(times, q)
       IN  /\ clean # <<>>
           /\ service_times' = times
           /\ q99' = q
           /\ service_times_clean' = clean
           /\ var_95' = Percentile(Squares(clean), 95)
           /\ var_99' = Percentile(Squares(clean), 99)
    /\ pc' = "tab3"
    /\ UNCHANGED <<dataFrame, fileVars, loaderVars, convVars, seriesVars, page>>

\* nothing lies strictly below the 99th percentile: np.percentile of an
\* empty array gives nan and a warning ...
Tab2VaRNaN ==
    /\ pc = "tab2"
    /\ LET times == DropNa(df)
           q == Percentile(times, 99)
           clean == BelowQuantile(times, q)
       IN  /\ clean = <<>>
           /\ service_times' = times
           /\ q99' = q
           /\ service_times_clean' = clean
           /\ var_95' = Percentile(Squares(clean), 95)
           /\ var_99' = Percentile(Squares(clean), 99)
    /\ pc' = "tab3"
    /\ UNCHANGED <<dataFrame, fileVars, loaderVars, convVars, seriesVars, page>>

\* ... or, depending on the numpy release, raises IndexError
Tab2VaRIndexError ==
    /\ pc = "tab2"
    /\ LET times == DropNa(df)
           q == Percentile(times, 99)
           clean == BelowQuantile(times, q)
       IN  /\ clean = <<>>
           /\ service_times' = times
           /\ q99' = q
           /\ service_times_clean' = clean
    /\ pc' = "error"
    /\ UNCHANGED <<dataFrame, fileVars, loaderVars, var_95, var_99, convVars, seriesVars, page>>

PickGridEnd == 30
PickGridPoints == 1000
TotalGridEnd == 60

\* np.linspace(start, stop, num) with start = 0: i * (stop / (num - 1)), and
\* stop itself at the last index
linspace(start, stop, num) == [start |-> start, stop |-> stop, num |-> num]

GridAt(grid, i) ==
    IF i = grid.num - 1 THEN DoubleOfRatio(grid.stop, 1)
    ELSE DoubleTimesInt(DoubleOfRatio(grid.stop - grid.start, grid.num - 1), i)

\* mode='same': as long as the longer input
ConvolveSameLength(a, b) == Max(a, b)

\* np.convolve(a, b, mode='full') has len(a) + len(b) - 1 entries
ConvolveLength(a, b) == a + b - 1

Tab3Convolution ==
    /\ pc = "tab3"
    /\ LET grid == linspace(0, PickGridEnd, PickGridPoints)
           total == [len |-> ConvolveLength(grid.num, grid.num)]
       IN  /\ x_axis' = grid
           /\ dx' = GridAt(grid, 1)
           /\ pdf_total' = total
           /\ x_total' = linspace(0, TotalGridEnd, total.len)
    /\ pc' = "tab4"
    /\ UNCHANGED <<dataFrame, fileVars, loaderVars, riskVars, seriesVars, page>>

DataNext ==
    \/ PipelineNotRun
    \/ PressRunPipeline
    \/ LoadAndProcess
    \/ RerunAfterLoad
    \/ LoadAndProcessMissing
    \/ GetData
    \/ Restart
    \/ Tab2VaR
    \/ Tab2VaRNaN
    \/ Tab2VaRIndexError
    \/ Tab3Convolution

SpecData == DataInit /\ [][DataNext]_vars

(***************************************************************************)
(* Tab 4: the demand series.  ts_data is the number of orders per period   *)
(* of the analysis window; the purchase timestamps it is resampled from    *)
(* are not modelled, so it ranges over the series resampling can give:     *)
(* the first and the last period hold an order each.  adfuller, acf and    *)
(* seasonal_decompose are statsmodels functions and modelled by what they  *)
(* return or raise.  Test statistics and critical values are in            *)
(* thousandths, p-values in per mille.                                     *)
(***************************************************************************)
MaxSeriesLen == 5
MaxCount == 2
MinSeasonalPeriod == 2
DefaultAcfLags == 48

Series ==
    {y \in UNION {[1..n -> 0..MaxCount] : n \in 1..MaxSeriesLen} :
        y[1] >= 1 /\ y[Len(y)] >= 1}

\* st.slider("Seasonal Period", min_value=2, max_value=168, value=24, step=1)
SeasonalPeriods == {MinSeasonalPeriod, MinSeasonalPeriod + 1}
\* st.selectbox("ADF Confidence Level", options=[90, 95, 99], index=1)
ConfidenceLevels == {90, 95, 99}

\* a table of as many orders as the longest series counts
SeriesTable ==
    WriteCsv([i \in 1..MaxSeriesLen * MaxCount |-> [order_id |-> i, service_time |-> Days(1)]])

\* the script has reached tab 4 with the table loaded
SeriesInit ==
    /\ pc = "tab4"
    /\ dataset_present = RawFiles
    /\ orders_df = Fresh.orders_df
    /\ items_df = Fresh.items_df
    /\ processed_log = SeriesTable
    /\ get_data_cache = ReadCsv(SeriesTable)
    /\ df = ReadCsv(SeriesTable)
    /\ load_result = Fresh.load_result
    /\ page = {DataReady}
    /\ RiskFresh
    /\ SeriesFresh
    /\ naive_inspection_rate = Fresh.naive_inspection_rate
    /\ num_servers = Fresh.num_servers
    /\ batch_size = Fresh.batch_size
    /\ naive_sample_n = Fresh.naive_sample_n
    /\ real_defect_rate = Fresh.real_defect_rate
    /\ acceptance_number = Fresh.acceptance_number
    /\ M = Fresh.M
    /\ prob_accept = Fresh.prob_accept
    /\ M_sim = Fresh.M_sim
    /\ probs_accept = Fresh.probs_accept
    /\ lambda_rate = Fresh.lambda_rate
    /\ service_capacity = Fresh.service_capacity
    /\ utilization = Fresh.utilization
    /\ stress_factor = Fresh.stress_factor
    /\ up_rate = Fresh.up_rate
    /\ down_rate = Fresh.down_rate
    /\ failure_rate = Fresh.failure_rate
    /\ Q = Fresh.Q
    /\ Pt = Fresh.Pt
    /\ prob_crash = Fresh.prob_crash
    /\ P_t = Fresh.P_t
    /\ crash_probs = Fresh.crash_probs
    /\ time_to_5pct = Fresh.time_to_5pct
    /\ time_to_risk_cell = Fresh.time_to_risk_cell
    /\ eigenvalues = Fresh.eigenvalues
    /\ eigen_data = Fresh.eigen_data
    /\ relaxation_time = Fresh.relaxation_time

seriesFrame == <<dataFrame, dataset_present, orders_df, items_df, processed_log,
                 get_data_cache, load_result, riskVars, convVars>>

\* df['order_purchase_timestamp'] = pd.to_datetime(df['order_purchase_timestamp'])
ToDatetime(table) == [table EXCEPT !.order_purchase_timestamp = "datetime64[ns]"]

\* the widgets of tab 4, the conversion of the timestamp column in df, and
\* the resampled series
Tab4Prepare ==
    /\ pc = "tab4"
    /\ seasonal_period' \in SeasonalPeriods
    /\ adf_confidence' \in ConfidenceLevels
    /\ df' = ToDatetime(df)
    /\ ts_data' \in Series
    /\ pc' = "adf"
    /\ UNCHANGED <<seriesFrame, adf_result, critical_threshold, stationarity,
                   acf_values, colors, decomposition, page>>

IsConstant(y) == \A i \in 1..Len(y) : y[i] = y[1]

\* adfuller's lag limit for regression='c' on a short series:
\* nobs // 2 - ntrend - 1, which is below 12 * (nobs / 100) ** 0.25 here
AdfMaxLag(n) == n \div 2 - 2

\* adfuller raises ValueError for a constant series and for one too short
\* for the regression
AdfRaises(y) == IsConstant(y) \/ AdfMaxLag(Len(y)) < 0

\* values the test statistic is sampled at
Statistics == {-6000, -3000, -2700, -1000}

\* MacKinnon's response surface b0 + b1/N + b2/N^2 + b3/N^3 for the constant-
\* only regression: the rows are the 1%, 5% and 10% levels
TauC ==
    [one |-> <<-3430, -6539, -16786, -79433>>,
     five |-> <<-2862, -2890, -4234, -40040>>,
     ten |-> <<-2567, -1538, -2809, 0>>]

ResponseSurface(b, N) == b[1] + b[2] \div N + b[3] \div (N * N) + b[4] \div (N * N * N)

\* adf_result[4]: the critical values for the number of observations used
CriticalValues(nobs) ==
    [one |-> ResponseSurface(TauC.one, nobs),
     five |-> ResponseSurface(TauC.five, nobs),
     ten |-> ResponseSurface(TauC.ten, nobs)]

\* adf_result[1]: the p-value is taken from the asymptotic distribution (N
\* infinite), so it passes 1%, 5% and 10% where the statistic passes b0
MacKinnonP(statistic) ==
    IF statistic <= TauC.one[1] THEN 5
    ELSE IF statistic <= TauC.five[1] THEN 30
    ELSE IF statistic <= TauC.ten[1] THEN 75
    ELSE 500

\* confidence_map = {90: '10%', 95: '5%', 99: '1%'}
confidence_map(confidence, values) ==
    IF confidence = 90 THEN values.ten
    ELSE IF confidence = 95 THEN values.five
    ELSE values.one

\* the statistic compared with the critical value
ClassifyByCriticalValue(p_value, confidence, statistic, threshold) ==
    IF statistic < threshold THEN "Appears Stationary" ELSE "Non-Stationary System"

\* if p_value > (1 - adf_confidence/100): Non-Stationary else: Appears Stationary
Classify(p_value, confidence, statistic, threshold) ==
    IF p_value > 10 * (100 - confidence) THEN "Non-Stationary System" ELSE "Appears Stationary"

\* adfuller(ts_data.values) returns; the classification is shown
Tab4Adf ==
    /\ pc = "adf"
    /\ ~AdfRaises(ts_data)
    /\ \E statistic \in Statistics, usedlag \in 0..AdfMaxLag(Len(ts_data)) :
          \E result \in {[adf_statistic |-> statistic, p_value |-> MacKinnonP(statistic),
                          nobs |-> Len(ts_data) - 1 - usedlag]} :
             \E threshold \in {confidence_map(adf_confidence, CriticalValues(result.nobs))} :
                /\ adf_result' = result
                /\ critical_threshold' = threshold
                /\ stationarity' = Classify(result.p_value, adf_confidence,
                                            result.adf_statistic, threshold)
    /\ pc' = "acf"
    /\ UNCHANGED <<seriesFrame, df, seasonal_period, adf_confidence, ts_data,
                   acf_values, colors, decomposition, page>>

UncaughtException == "ValueError"

\* adfuller raises: nothing around line 2029 catches it, the run ends with
\* the traceback on the page
Tab4AdfRaises ==
    /\ pc = "adf"
    /\ AdfRaises(ts_data)
    /\ page' = page \cup {UncaughtException}
    /\ pc' = "error"
    /\ UNCHANGED <<seriesFrame, df, seriesVars>>

RECURSIVE SumSeq(_, _)
SumSeq(y, i) == IF i = 0 THEN 0 ELSE y[i] + SumSeq(y, i - 1)

\* n * (y[t] - mean)
Deviations(y) ==
    Value({[t \in 1..Len(y) |-> Len(y) * y[t] - total] : total \in {SumSeq(y, Len(y))}})

RECURSIVE LagProducts(_, _, _)
LagProducts(d, k, t) == IF t <= k THEN 0 ELSE d[t] * d[t - k] + LagProducts(d, k, t - 1)

\* the biased estimator: sum (y[t] - mean)(y[t-k] - mean) / sum (y[t] - mean)^2
Rho(d, k) ==
    IF LagProducts(d, 0, Len(d)) = 0 THEN NaNValue
    ELSE Rat(LagProducts(d, k, Len(d)), LagProducts(d, 0, Len(d)))

\* acf(x, nlags): rho_0 .. rho_nlags, rho_k at position k + 1
acf(y, nlags) == Value({[i \in 1..nlags + 1 |-> Rho(d, i - 1)] : d \in {Deviations(y)}})

\* acf_values = acf(ts_data, nlags=min(acf_lags, len(ts_data)-1))
Tab4Acf ==
    /\ pc = "acf"
    /\ acf_values' = acf(ts_data, Min(DefaultAcfLags, Len(ts_data) - 1))
    /\ pc' = "decomposition"
    /\ UNCHANGED <<seriesFrame, df, seasonal_period, adf_confidence, ts_data, adf_result,
                   critical_threshold, stationarity, colors, decomposition, page>>

DecompositionWarning == "Could not perform decomposition: name 'make_subplots' is not defined"
DecompositionChart == "fig_decomp"

\* if len(ts_data) >= 2 * seasonal_period
EnoughData(y, period) == Len(y) >= 2 * period

\* the condition is false: the section is passed over and nothing is shown
Tab4DecompositionSkipped ==
    /\ pc = "decomposition"
    /\ ~EnoughData(ts_data, seasonal_period)
    /\ pc' = "acf_plot"
    /\ UNCHANGED <<seriesFrame, df, seriesVars, page>>

\* seasonal_decompose returns; make_subplots is not imported, so line 2246
\* raises NameError, which 'except Exception' turns into the warning
Tab4DecompositionWarning ==
    /\ pc = "decomposition"
    /\ EnoughData(ts_data, seasonal_period)
    /\ decomposition' = "additive"
    /\ page' = page \cup {DecompositionWarning}
    /\ pc' = "acf_plot"
    /\ UNCHANGED <<seriesFrame, df, seasonal_period, adf_confidence, ts_data, adf_result,
                   critical_threshold, stationarity, acf_values, colors>>

Red == "#EF4444"
Blue == "#93C5FD"

AbsRat(r) == [n |-> Abs(r.n), d |-> r.d]

\* |rho| > 1.96 / sqrt(n), squared
ExceedsBand(rho, n) ==
    rho # NaNValue /\ 10000 * rho.n * rho.n * n > 38416 * rho.d * rho.d

\* the bar is red outside the confidence band
BarColorByBand(rho, n) == IF ExceedsBand(rho, n) THEN Red ELSE Blue

\* '#EF4444' if abs(val) > 0.3 else '#93C5FD'
BarColor(rho, n) == IF rho # NaNValue /\ RatLess(Rat(3, 10), AbsRat(rho)) THEN Red ELSE Blue

\* colors = [... for val in acf_values]; the rest of the tab
Tab4AcfPlot ==
    /\ pc = "acf_plot"
    /\ colors' = [i \in 1..Len(acf_values) |-> BarColor(acf_values[i], Len(ts_data))]
    /\ pc' = "tab5"
    /\ UNCHANGED <<seriesFrame, df, seasonal_period, adf_confidence, ts_data, adf_result,
                   critical_threshold, stationarity, acf_values, decomposition, page>>

SeriesNext ==
    \/ Tab4Prepare
    \/ Tab4Adf
    \/ Tab4AdfRaises
    \/ Tab4Acf
    \/ Tab4DecompositionSkipped
    \/ Tab4DecompositionWarning
    \/ Tab4AcfPlot

SpecSeries == SeriesInit /\ [][SeriesNext]_vars

(***************************************************************************)
(* Properties of the sampling plan and of the acceptance probability.      *)
(***************************************************************************)
Last(seq) == seq[Len(seq)]

CdfCalled == prob_accept # NoProb

\* C1: whenever hypergeom.cdf has been called (Spec), the plan it was called
\* with satisfies 0 <= M <= N, 0 <= n <= N and 0 <= c <= n; a plan breaking
\* a bound never reaches the call.
C1_OnlyValidPlansReachCdf ==
    CdfCalled => PlanValid(batch_size, M, naive_sample_n, acceptance_number)

\* C2: for every plan with 0 <= M <= N, 0 <= n <= N and 0 <= c <= n
\* (SpecPlan), the acceptance probability lies in [0, 1].
C2_AcceptProbabilityInUnitInterval ==
    pc = "evaluated" => ProbInUnitInterval(prob_accept)

C2_Witness ==
    /\ pc = "evaluated"
    /\ 0 < M /\ M < batch_size
    /\ 0 < naive_sample_n /\ naive_sample_n < batch_size
    /\ 0 < acceptance_number /\ acceptance_number < naive_sample_n
    /\ BigLess(BigZero, prob_accept.num)
    /\ BigLess(prob_accept.num, prob_accept.den)

\* C3: with N, n and c fixed (SpecPlan), the acceptance probability does not
\* increase when the defect count grows: every defect count M2 >= M (compared
\* up to MaxPopulation steps above M) is accepted with probability at most
\* that of M.
C3_MonotoneInDefectCount ==
    pc = "evaluated" =>
        \A M2 \in M..batch_size :
            M2 - M <= MaxPopulation =>
                ProbLeq(AcceptProbability(acceptance_number, batch_size, M2, naive_sample_n),
                        prob_accept)

C3_Witness ==
    /\ pc = "evaluated"
    /\ acceptance_number > 0
    /\ \E M2 \in M + 1..batch_size :
          /\ M2 - M <= MaxPopulation
          /\ LET p2 == AcceptProbability(acceptance_number, batch_size, M2, naive_sample_n)
             IN  ProbLeq(p2, prob_accept) /\ p2.num # prob_accept.num

\* C4: the acceptance probability is exactly 1 whenever the batch holds no
\* defect (M = 0) and whenever nothing is sampled (n = 0, any c >= 0), for
\* every batch size: both for the plan of the sampling panel and for the
\* point of the OC curve computed last (Spec).
C4_DegeneratePlansAlwaysAccept ==
    /\ (CdfCalled /\ (M = 0 \/ naive_sample_n = 0)) => ProbIsOne(prob_accept)
    /\ (probs_accept # <<>> /\ (M_sim = 0 \/ naive_sample_n = 0)) =>
           ProbIsOne(Last(probs_accept))

C4_Witness ==
    /\ CdfCalled
    /\ naive_sample_n = 0
    /\ acceptance_number > 0
    /\ M > 0
    /\ ProbIsOne(prob_accept)
    /\ Len(probs_accept) > 1
    /\ M_sim > 0
    /\ ProbIsOne(Last(probs_accept))

\* C5: the OC curve is non-increasing in the defect rate (Spec): every point
\* appended to probs_accept is at most the point appended before it.
C5_OCCurveNonIncreasing ==
    Len(probs_accept) >= 2 =>
        ProbLeq(Last(probs_accept), probs_accept[Len(probs_accept) - 1])

C5_Witness ==
    /\ Len(probs_accept) = GridPoints
    /\ acceptance_number > 0
    /\ ProbIsOne(probs_accept[1])
    /\ ~ProbIsOne(Last(probs_accept))
    /\ \E i \in 2..GridPoints : probs_accept[i].num # probs_accept[i - 1].num

GridPointDone == Len(probs_accept) - 1

\* C6 as stated: the defect count of each OC point is round(N * p), the
\* nearest integer to the product (Spec).
C6_DefectCountIsNearestInteger ==
    probs_accept # <<>> =>
        M_sim = RoundOfDouble(DoubleTimesInt(defect_rates[GridPointDone], batch_size))

\* C6: the defect count of each OC point is recomputed from that point's own
\* defect rate p as the integer part of N * p (Spec): 0 <= M_sim <= N and
\* M_sim <= N * p < M_sim + 1, the product being the double the code computes.
C6_DefectCountIsIntegerPart ==
    probs_accept # <<>> =>
        LET x == DoubleTimesInt(defect_rates[GridPointDone], batch_size)
        IN  /\ 0 <= M_sim /\ M_sim <= batch_size
            /\ BigLeq(ShiftLeft(BigOfInt(M_sim), x.e), x.m)
            /\ BigLess(x.m, ShiftLeft(BigOfInt(M_sim + 1), x.e))

C6_Witness ==
    /\ probs_accept # <<>>
    /\ M_sim > 0
    /\ M_sim + 1 = RoundOfDouble(DoubleTimesInt(defect_rates[GridPointDone], batch_size))

AtDefaultPlan ==
    /\ pc = "evaluated"
    /\ batch_size = 1000 /\ M = 50 /\ naive_sample_n = 100 /\ acceptance_number = 0

\* C7 as stated: the plan N = 1000, M = 50, n = 100, c = 0 is accepted with
\* probability 0.0059 to four decimals (SpecPlan).
C7_DefaultPlanNear59 ==
    AtDefaultPlan => RoundsToFourDecimals(prob_accept, 59)

\* C7: the plan N = 1000, M = 50, n = 100, c = 0 is accepted with probability
\* 0.0045 to four decimals (SpecPlan).
C7_DefaultPlanNear45 ==
    AtDefaultPlan => RoundsToFourDecimals(prob_accept, 45)

C7_Witness == AtDefaultPlan /\ CdfCalled

(***************************************************************************)
(* Properties of the generator matrix.                                     *)
(***************************************************************************)
States == 1..4

RowSum(row) == RatAdd(RatAdd(RatAdd(row[1], row[2]), row[3]), row[4])

QBuilt == Q # NoMatrix

\* C8: every row of the generator matrix Q the dashboard builds sums to
\* zero (Spec).
C8_RowsSumToZero ==
    QBuilt => \A i \in States : RowSum(Q[i]) = RatZero

C8_Witness ==
    /\ QBuilt
    /\ RatLess(RatZero, up_rate)
    /\ RatLess(DangerThreshold, utilization)
    /\ failure_rate # up_rate

\* C9: in every generator matrix the dashboard builds (Spec), utilization
\* above 2 included, the off-diagonal entries are >= 0 and the diagonal
\* entries are <= 0.
C9_GeneratorSigns ==
    QBuilt =>
        \A i, j \in States :
            IF i = j THEN RatLeq(Q[i][j], RatZero) ELSE RatLeq(RatZero, Q[i][j])

\* C10: Failure is absorbing and transitions join adjacent states only
\* (Spec): the Failure row of Q is all zero, and the only non-zero
\* off-diagonal entries are Normal<->Stressed, Stressed<->Overload and
\* Overload->Failure.
AdjacentPairs == {<<1, 2>>, <<2, 1>>, <<2, 3>>, <<3, 2>>, <<3, 4>>}

C10_FailureAbsorbingAdjacentOnly ==
    QBuilt =>
        /\ \A j \in States : Q[4][j] = RatZero
        /\ \A i, j \in States :
              (i # j /\ Q[i][j] # RatZero) => <<i, j>> \in AdjacentPairs

C10_Witness ==
    /\ QBuilt
    /\ \A pair \in AdjacentPairs : Q[pair[1]][pair[2]] # RatZero

(***************************************************************************)
(* Properties of the transient analysis.                                   *)
(***************************************************************************)
VectorSum(v) == DecAdd(DecAdd(v[1], v[2]), DecAdd(v[3], v[4]))

\* entries >= 0 and summing to 1, up to the tolerance of the arithmetic
IsDistribution(v) ==
    /\ \A i \in States : DecLeq(DecNeg(ModelTolerance), v[i])
    /\ DecLeq(DecAbs(DecSub(VectorSum(v), DecOne)), ModelTolerance)

\* C11: for every allowed (lambda, servers), the state distribution
\* P0 @ expm(Q*t) at t = 1 and at every time of the horizon has its four
\* entries >= 0 and summing to 1 (SpecMarkov).
C11_StateDistributionIsProbability ==
    /\ Pt # NoVector => IsDistribution(Pt)
    /\ P_t # NoVector => IsDistribution(P_t)

\* C12: for every allowed (lambda, servers), each value appended to
\* crash_probs along the horizon is at least the value appended before it
\* (SpecMarkov).
C12_CrashProbabilityNonDecreasing ==
    Len(crash_probs) >= 2 =>
        DecLeq(DecSub(crash_probs[Len(crash_probs) - 1], ModelTolerance),
               Last(crash_probs))

\* C13: for lambda = 95 and mu = 100 (rho = 0.95 < 1), up_rate > 0 and
\* failure_rate > 0, and the failure-state probability at t = 1 is strictly
\* greater than 0 (SpecMarkov).
C13_FailureReachableBelowSaturation ==
    (lambda_rate = 95 /\ service_capacity = 100 /\ Pt # NoVector) =>
        /\ RatLess(utilization, RatOfInt(1))
        /\ RatLess(RatZero, up_rate)
        /\ RatLess(RatZero, failure_rate)
        /\ DecLess(ModelTolerance, prob_crash)

C13_Witness ==
    /\ lambda_rate = 95
    /\ service_capacity = 100
    /\ utilization = Rat(95, 100)
    /\ Pt # NoVector
    /\ prob_crash = Pt[4]
    /\ DecLess(DecOfRat(Rat(1, 2)), prob_crash)

TimeToRiskDone == pc \in {"summary", "end"}

\* C14: the reported time-to-risk is the smallest time of the horizon whose
\* failure probability reaches the threshold (SpecMarkov): time_to_5pct is
\* time_horizon[i] for an index i with crash_probs[i] >= 0.05, and every
\* earlier index has crash_probs < 0.05.
C14_TimeToRiskIsFirstCrossing ==
    (TimeToRiskDone /\ time_to_5pct # NoRat) =>
        \E i \in 1..HorizonPoints :
            /\ time_to_5pct = time_horizon[i - 1]
            /\ DecLeq(RiskThreshold, crash_probs[i])
            /\ \A j \in 1..i - 1 : DecLess(crash_probs[j], RiskThreshold)

C14_Witness ==
    /\ TimeToRiskDone
    /\ time_to_5pct # NoRat
    /\ RatLess(RatOfInt(1), time_to_5pct)
    /\ \E i \in 1..HorizonPoints - 1 :
          /\ DecLeq(RiskThreshold, crash_probs[i])
          /\ DecLeq(RiskThreshold, crash_probs[i + 1])

NeverCrossed == \A i \in 1..Len(crash_probs) : DecLess(crash_probs[i], RiskThreshold)

\* C15: when the failure probability stays below the threshold at every
\* point of the horizon (SpecMarkov), the search ends without an error,
\* time_to_5pct stays unbound, and the summary cell reads '>5 hours' and
\* carries no time.
C15_NoCrossingReportsNotReached ==
    (TimeToRiskDone /\ NeverCrossed) =>
        /\ time_to_5pct = NoRat
        /\ pc = "end" => time_to_risk_cell = [text |-> ">5 hours", value |-> NoRat]

C15_Witness ==
    /\ pc = "end"
    /\ Len(crash_probs) = HorizonPoints
    /\ NeverCrossed
    /\ RatLess(utilization, RatOfInt(1))
    /\ DecLess(DecZero, Last(crash_probs))
    /\ time_to_risk_cell.text = ">5 hours"

\* C16: failure_rate = 2 * up_rate when the utilization is strictly above
\* 0.9, and failure_rate = 0.5 * up_rate otherwise, utilization exactly 0.9
\* included (SpecMarkov).
C16_FailureRatePolicy ==
    QBuilt =>
        IF 10 * lambda_rate > 9 * service_capacity
        THEN failure_rate = RatAdd(up_rate, up_rate)
        ELSE RatAdd(failure_rate, failure_rate) = up_rate

C16_Witness ==
    /\ QBuilt
    /\ 10 * lambda_rate = 9 * service_capacity
    /\ up_rate # RatZero
    /\ RatAdd(failure_rate, failure_rate) = up_rate

EigenDone == pc \in {"summary", "end"}

IsDiscarded(ev) == DecLeq(Magnitude(ev), ZeroMagnitude)

\* C17: the relaxation timescale is 1/|lambda_1| for the eigenvalue of Q of
\* smallest non-zero magnitude (SpecMarkov): the eigenvalues are sorted by
\* magnitude, those with |ev| <= 1e-10 are discarded, relaxation_time is the
\* inverse of the smallest remaining magnitude, and no discarded eigenvalue
\* is inverted (its timescale is infinite; a zero one is interpreted as the
\* steady state).
C17_RelaxationFromSmallestNonZero ==
    EigenDone =>
        /\ \A i \in 1..Len(eigenvalues) - 1 :
              DecLeq(Magnitude(eigenvalues[i]), Magnitude(eigenvalues[i + 1]))
        /\ \E k \in 1..Len(eigenvalues) :
              /\ ~IsDiscarded(eigenvalues[k])
              /\ DecLeq(DecAbs(DecSub(DecMul(relaxation_time, Magnitude(eigenvalues[k])),
                                      DecOne)),
                        ModelTolerance)
              /\ \A j \in 1..Len(eigenvalues) :
                    \/ IsDiscarded(eigenvalues[j])
                    \/ DecLeq(Magnitude(eigenvalues[k]), Magnitude(eigenvalues[j]))
        /\ \A k \in 1..Len(eigenvalues) :
              IsDiscarded(eigenvalues[k]) =>
                  /\ eigen_data[k].timescale = Infinite
                  /\ Magnitude(eigenvalues[k]) = DecZero =>
                         eigen_data[k].interpretation = Infinite

C17_Witness ==
    /\ EigenDone
    /\ Len(eigenvalues) = 4
    /\ Magnitude(eigenvalues[1]) = DecZero
    /\ eigen_data[1].timescale = Infinite
    /\ DecLess(Magnitude(eigenvalues[2]), Magnitude(eigenvalues[4]))
    /\ relaxation_time = Inverse(Magnitude(eigenvalues[2]))


VaRDone == pc \in {"tab3", "tab4"}

\* a comparison with nan is False
AtLeast(a, b) == a # NaNValue /\ b # NaNValue /\ RatLeq(b, a)

\* C18: for every non-empty sample of service times, once tab 2 has computed
\* the two values at risk, var_99 is at least var_95.
C18_VaR99AtLeastVaR95 ==
    (VaRDone /\ service_times # <<>>) => AtLeast(var_99, var_95)

AllPositive(rows) == \A i \in 1..Len(rows) : IsPositive(rows[i].service_time)

Dropped(i) == i \in items_df /\ ~IsPositive(ServiceTime(orders_df[i]))

\* C19: every row written to processed_log.csv, every row of the table read
\* back from it, and every observation squared by the cost transform has a
\* service time > 0; rows with a service time <= 0 or undefined never get there.
C19_OnlyPositiveServiceTimesReachEngine ==
    /\ processed_log.exists =>
          \A i \in 1..Len(processed_log.rows) :
              /\ ~processed_log.rows[i].service_time.blank
              /\ processed_log.rows[i].service_time.digits > 0
    /\ df.kind = "DataFrame" => AllPositive(df.rows)
    /\ \A i \in 1..Len(service_times) : service_times[i] > 0
    /\ \A i \in 1..Len(service_times_clean) : service_times_clean[i] > 0

C19_Witness ==
    /\ pc = "tab3"
    /\ \E i \in 1..Len(orders_df) : Dropped(i)
    /\ Len(df.rows) > 0
    /\ Len(df.rows) < Len(orders_df)

\* C20: the grid of the total time starts at 0, stops at 60 and has
\* 1000 + 1000 - 1 = 1999 points, one per entry of the full convolution, and
\* its step 60/1998 is the same double as dx = 30/999.
C20_TotalGridAlignedWithStep ==
    pc = "tab4" =>
        /\ x_total.start = 0
        /\ x_total.stop = 60
        /\ x_total.num = 1999
        /\ x_total.num = x_axis.num + x_axis.num - 1
        /\ x_total.num = pdf_total.len
        /\ GridAt(x_total, 1) = DoubleOfRatio(60, 1998)
        /\ dx = DoubleOfRatio(30, 999)
        /\ GridAt(x_total, 1) = dx

C20_Witness == pc = "tab4" /\ pdf_total.len = 1999 /\ dx # NoDouble


\* no module has computed anything in this run
ModulesNotRun ==
    /\ prob_accept = Fresh.prob_accept
    /\ probs_accept = Fresh.probs_accept
    /\ RiskFresh
    /\ SeriesFresh
    /\ Q = Fresh.Q
    /\ crash_probs = Fresh.crash_probs

\* C26: when get_data returns None the script shows the 'Please run the Data
\* Pipeline' error and stops: no module has computed anything in that run
\* and nothing was raised.
C26_AbsentTableStopsTheRun ==
    df = None => /\ pc = "stopped"
                 /\ PipelineRequired \in page
                 /\ ModulesNotRun

C26_Witness == df = None /\ pc = "stopped" /\ ~processed_log.exists

\* C28: once the pipeline has written processed_log.csv and the script has
\* rerun, the script is not held at the 'Please run the Data Pipeline' stop.
C28_PipelineUnblocksDashboard ==
    processed_log.exists => ~(pc = "stopped" /\ PipelineRequired \in page)

\* C29: with a raw file missing load_and_process returns (None, message),
\* raises nothing and processed_log.csv stays unwritten; the file is written
\* only on the path that returns (table, 'Success').
C29_MissingRawFilesWriteNothing ==
    /\ load_result.kind = "None" =>
          /\ load_result.message = MissingFiles
          /\ ~(RawFiles \subseteq dataset_present)
          /\ ~processed_log.exists
          /\ pc # "error"
    /\ processed_log.exists => RawFiles \subseteq dataset_present
    /\ load_result.kind = "DataFrame" =>
          /\ load_result.message = "Success"
          /\ processed_log.exists
    /\ pc \in {"pressed", "loaded"} => (processed_log.exists <=> pc = "loaded")

C29_Witness ==
    /\ load_result.kind = "None"
    /\ pc = "get_data"
    /\ dataset_present # {}
    /\ MissingFiles \in page


\* C27: for every arrival rate and server count the widgets allow, the
\* denominator 2 - lambda/mu of the stress factor is non-zero and building Q
\* raises nothing.
C27_StressFactorAlwaysDefined ==
    utilization # NoRat =>
        /\ RatSub(RatOfInt(2), utilization) # RatZero
        /\ pc # "error"


\* C21: when the series is shorter than two seasonal periods the
\* decomposition is not computed and the page reports the shortage, with a
\* message that is not the one of a failed decomposition nor a traceback.
InsufficientDataReported ==
    page \ {DataReady, DecompositionWarning, UncaughtException} # {}

C21_ShortSeriesReported ==
    (pc = "tab5" /\ ~EnoughData(ts_data, seasonal_period))
        => (decomposition = NoCell /\ InsufficientDataReported)

C23_FlaggedIffOutsideBand ==
    colors # <<>>
        => \A i \in 1..Len(colors) :
              colors[i] = BarColorByBand(acf_values[i], Len(ts_data))

\* C24: a constant series, or one of fewer than two observations, never
\* ends the run with an uncaught exception of the stationarity test.
Degenerate(y) == Len(y) < 2 \/ IsConstant(y)

C24_DegenerateSeriesCaught ==
    (ts_data # <<>> /\ Degenerate(ts_data))
        => (pc # "error" /\ UncaughtException \notin page)

\* C25: tab 4 leaves df as get_data returned it: no column is overwritten.
C25_TableLeftAsLoaded ==
    df.kind = "DataFrame" => df = get_data_cache

\* C30: with at least two seasonal periods of data and a decomposition
\* computed, the section shows its charts and no warning.
C30_DecompositionShown ==
    (pc = "tab5" /\ EnoughData(ts_data, seasonal_period) /\ decomposition # NoCell)
        => (DecompositionChart \in page /\ DecompositionWarning \notin page)

====
